---- MODULE Spec2Model ----
(***************************************************************************)
(* Model of two adapters of OpenLLM:                                       *)
(*   - openllm/_quantisation.py: infer_quantisation_config                 *)
(*   - openllm_core/config/configuration_dolly_v2.py:                      *)
(*     get_special_token_id and DollyV2Config.sanitize_parameters          *)
(*                                                                         *)
(* Python values are written as their literals: "6.0", "False", "None",    *)
(* "4".  A keyword mapping (dict) is a function from key strings to such   *)
(* literals.  A configuration object is the class that was instantiated    *)
(* together with the keyword arguments handed to its constructor.          *)
(***************************************************************************)
EXTENDS Integers, Sequences, FiniteSets, TLC

VARIABLES env, quantise, kwargs, result, prev, calls,
          key, token_ids, tok_result,
          san_in, san_result

vars == <<env, quantise, kwargs, result, prev, calls,
          key, token_ids, tok_result, san_in, san_result>>

qvars == <<env, quantise, kwargs, result, prev, calls>>
tvars == <<key, token_ids, tok_result>>
svars == <<san_in, san_result>>

----------------------------------------------------------------------------
(* Bounds *)

\* largest number of keyword overrides a caller passes in one call
MaxOverrides == 2
\* number of consecutive calls made with the same inputs
MaxCalls == 2
\* longest id list the tokenizer produces for a marker
MaxIds == 3
\* largest number of unrecognised keyword overrides given to sanitize_parameters
MaxExtras == 2

----------------------------------------------------------------------------
(* Python helpers *)

None == "None"

Idle == [status |-> "none"]

\* the subsets of S with at most n elements
RECURSIVE SubsetsUpTo(_, _)
SubsetsUpTo(S, n) ==
  IF n = 0 THEN {{}}
  ELSE LET smaller == SubsetsUpTo(S, n - 1)
       IN  smaller \cup {T \cup {x} : T \in smaller, x \in S}

\* the value dict.pop(k, default) returns
pop(attrs, k, default) == IF k \in DOMAIN attrs THEN attrs[k] ELSE default

\* the dict after the keys of K were popped
popped(attrs, K) == [k \in (DOMAIN attrs) \ K |-> attrs[k]]

\* {**a, **b}: the keys of b win
merge(a, b) == [k \in (DOMAIN a) \cup (DOMAIN b) |-> IF k \in DOMAIN b THEN b[k] ELSE a[k]]

bool(b) == IF b THEN "True" ELSE "False"

----------------------------------------------------------------------------
(* openllm/_quantisation.py *)

Accepted == <<"int8", "int4", "gptq", "awq">>

Int8Keys == {"llm_int8_threshhold", "llm_int8_enable_fp32_cpu_offload",
             "llm_int8_skip_modules", "llm_int8_has_fp16_weight"}
SharedKeys == {"bits", "group_size"}
Int4Keys == {"bnb_4bit_compute_dtype", "bnb_4bit_quant_type", "bnb_4bit_use_double_quant"}
GptqKeys == {"tokenizer", "dataset", "damp_percent", "desc_act", "sym", "true_sequential",
             "use_cuda_fp16", "model_seqlen", "block_name_to_quantize",
             "module_name_preceding_first_block", "batch_size", "pad_token_id",
             "disable_exllama"}
AwqKeys == {"zero_point"}

Ok(config, attrs) == [status |-> "ok", config |-> config, attrs |-> attrs]

Raise(kind, requires, accepted, hint) ==
  [status |-> "error", kind |-> kind, requires |-> requires, accepted |-> accepted, hint |-> hint]

create_awq_config_keeps_zero_point(attrs, bits, group_size) ==
  [config |-> [class |-> "AwqConfig",
               args  |-> [bits |-> bits, group_size |-> group_size,
                          zero_point |-> pop(attrs, "zero_point", "True")]],
   attrs  |-> attrs]

create_awq_config(attrs, bits, group_size) ==
  [config |-> [class |-> "AwqConfig",
               args  |-> [bits |-> bits, group_size |-> group_size,
                          zero_point |-> pop(attrs, "zero_point", "True")]],
   attrs  |-> popped(attrs, AwqKeys)]

create_gptq_config(self, e, attrs, bits, group_size) ==
  [config |-> [class |-> "GPTQConfig",
               args  |-> [bits |-> bits,
                          tokenizer |-> pop(attrs, "tokenizer", self),
                          dataset |-> pop(attrs, "dataset", "c4"),
                          group_size |-> group_size,
                          damp_percent |-> pop(attrs, "damp_percent", "0.1"),
                          desc_act |-> pop(attrs, "desc_act", "False"),
                          sym |-> pop(attrs, "sym", "True"),
                          true_sequential |-> pop(attrs, "true_sequential", "True"),
                          use_cuda_fp16 |-> pop(attrs, "use_cuda_fp16", bool(e.cuda)),
                          model_seqlen |-> pop(attrs, "model_seqlen", None),
                          block_name_to_quantize |-> pop(attrs, "block_name_to_quantize", None),
                          module_name_preceding_first_block |->
                            pop(attrs, "module_name_preceding_first_block", None),
                          batch_size |-> pop(attrs, "batch_size", "1"),
                          pad_token_id |-> pop(attrs, "pad_token_id", None),
                          disable_exllama |-> pop(attrs, "disable_exllama", "False")]],
   attrs  |-> popped(attrs, GptqKeys)]

create_int8_config_default_threshold(int8_skip_modules, int8_enable_fp32_cpu_offload, int8_threshold, int8_has_fp16_weight) ==
  [class |-> "BitsAndBytesConfig",
   args  |-> [load_in_8bit |-> "True",
              llm_int8_enable_fp32_cpu_offload |-> int8_enable_fp32_cpu_offload,
              llm_int8_threshhold |-> "6.0",
              llm_int8_skip_modules |-> int8_skip_modules,
              llm_int8_has_fp16_weight |-> int8_has_fp16_weight]]

create_int8_config(int8_skip_modules, int8_enable_fp32_cpu_offload, int8_threshold, int8_has_fp16_weight) ==
  [class |-> "BitsAndBytesConfig",
   args  |-> [load_in_8bit |-> "True",
              llm_int8_enable_fp32_cpu_offload |-> int8_enable_fp32_cpu_offload,
              llm_int8_threshhold |-> int8_threshold,
              llm_int8_skip_modules |-> int8_skip_modules,
              llm_int8_has_fp16_weight |-> int8_has_fp16_weight]]

int4_config_loads_8bit(int4_compute_dtype, int4_quant_type, int4_use_double_quant) ==
  [class |-> "BitsAndBytesConfig",
   args  |-> [load_in_8bit |-> "True",
              bnb_4bit_compute_dtype |-> int4_compute_dtype,
              bnb_4bit_quant_type |-> int4_quant_type,
              bnb_4bit_use_double_quant |-> int4_use_double_quant]]

int4_config(int4_compute_dtype, int4_quant_type, int4_use_double_quant) ==
  [class |-> "BitsAndBytesConfig",
   args  |-> [load_in_4bit |-> "True",
              bnb_4bit_compute_dtype |-> int4_compute_dtype,
              bnb_4bit_quant_type |-> int4_quant_type,
              bnb_4bit_use_double_quant |-> int4_use_double_quant]]

\* the guard of the first raise: written before, and independent of, the mode branches
bitsandbytes_missing_for_mode(e, q) == q \in {"int8", "int4"} /\ ~e.bitsandbytes

bitsandbytes_missing(e, q) == ~e.bitsandbytes

infer_quantisation_config(self, e, q, attrs0) ==
  LET int8_threshold == pop(attrs0, "llm_int8_threshhold", "6.0")
      int8_enable_fp32_cpu_offload == pop(attrs0, "llm_int8_enable_fp32_cpu_offload", "False")
      int8_skip_modules == pop(attrs0, "llm_int8_skip_modules", None)
      int8_has_fp16_weight == pop(attrs0, "llm_int8_has_fp16_weight", "False")
      bits == pop(attrs0, "bits", "4")
      group_size == pop(attrs0, "group_size", "128")
      attrs1 == popped(attrs0, Int8Keys \cup SharedKeys)
      int4_compute_dtype == pop(attrs1, "bnb_4bit_compute_dtype", "torch.bfloat16")
      int4_quant_type == pop(attrs1, "bnb_4bit_quant_type", "nf4")
      int4_use_double_quant == pop(attrs1, "bnb_4bit_use_double_quant", "True")
      attrs == popped(attrs1, Int4Keys)
  IN  IF bitsandbytes_missing(e, q)
        THEN Raise("RuntimeError", {"bitsandbytes"}, <<>>, "pip install \"openllm[fine-tune]\"")
      ELSE IF q = "int8"
        THEN Ok(create_int8_config(int8_skip_modules, int8_enable_fp32_cpu_offload,
                                   int8_threshold, int8_has_fp16_weight), attrs)
      ELSE IF q = "int4"
        THEN Ok(int4_config(int4_compute_dtype, int4_quant_type, int4_use_double_quant), attrs)
      ELSE IF q = "gptq"
        THEN IF ~e.autogptq \/ ~e.optimum_gptq
               THEN Raise("MissingDependencyError", {"auto-gptq", "optimum>=0.12"}, <<>>,
                          "pip install \"openllm[gptq]\"")
               ELSE LET r == create_gptq_config(self, e, attrs, bits, group_size)
                    IN  Ok(r.config, r.attrs)
      ELSE IF q = "awq"
        THEN IF ~e.autoawq
               THEN Raise("MissingDependencyError", {"auto-awq"}, <<>>,
                          "pip install \"openllm[awq]\"")
               ELSE LET r == create_awq_config(attrs, bits, group_size)
                    IN  Ok(r.config, r.attrs)
      ELSE Raise("ValueError", {}, Accepted, "")

\* **attrs binds a fresh dict on every call: the pops act on the callee's copy
caller_kwargs_aliased(kw, out) == IF out.status = "ok" THEN out.attrs ELSE kw

caller_kwargs_after_call(kw, out) == kw

----------------------------------------------------------------------------
(* Inputs of the quantisation selector *)

Modes == {"int8", "int4", "gptq", "awq", "unknown"}

\* keys the selector does not name; load_in_8bit is the flag of the 8-bit variant
GenericKeys == {"device_map", "trust_remote_code", "load_in_8bit"}

OverrideKeys == Int8Keys \cup SharedKeys \cup Int4Keys \cup GptqKeys \cup AwqKeys \cup GenericKeys

\* the first value a caller overrides a key with; each differs from the key's default
FirstValue(k) ==
  CASE k = "llm_int8_threshhold" -> "5.0"
    [] k = "llm_int8_enable_fp32_cpu_offload" -> "True"
    [] k = "llm_int8_skip_modules" -> "['lm_head']"
    [] k = "llm_int8_has_fp16_weight" -> "True"
    [] k = "bits" -> "8"
    [] k = "group_size" -> "64"
    [] k = "bnb_4bit_compute_dtype" -> "torch.float16"
    [] k = "bnb_4bit_quant_type" -> "fp4"
    [] k = "bnb_4bit_use_double_quant" -> "False"
    [] k = "tokenizer" -> "gpt2"
    [] k = "dataset" -> "wikitext2"
    [] k = "damp_percent" -> "0.2"
    [] k = "desc_act" -> "True"
    [] k = "sym" -> "False"
    [] k = "true_sequential" -> "False"
    [] k = "use_cuda_fp16" -> "maybe"
    [] k = "model_seqlen" -> "2048"
    [] k = "block_name_to_quantize" -> "gpt_neox.layers"
    [] k = "module_name_preceding_first_block" -> "['gpt_neox.embed_in']"
    [] k = "batch_size" -> "2"
    [] k = "pad_token_id" -> "0"
    [] k = "disable_exllama" -> "True"
    [] k = "zero_point" -> "False"
    [] k = "device_map" -> "auto"
    [] OTHER -> "True"

\* the second value: the default passed explicitly where the default is a plain literal
SecondValue(k) ==
  CASE k = "llm_int8_threshhold" -> "6.0"
    [] k = "llm_int8_enable_fp32_cpu_offload" -> "False"
    [] k = "llm_int8_has_fp16_weight" -> "False"
    [] k = "bits" -> "4"
    [] k = "group_size" -> "128"
    [] k = "bnb_4bit_quant_type" -> "nf4"
    [] k = "bnb_4bit_use_double_quant" -> "True"
    [] k = "dataset" -> "c4"
    [] k = "zero_point" -> "True"
    [] k = "device_map" -> "cpu"
    [] k = "trust_remote_code" -> "False"
    [] k = "load_in_8bit" -> "False"
    [] OTHER -> None

OverrideValue(k, choice) == IF choice = 1 THEN FirstValue(k) ELSE SecondValue(k)

Overrides == {[k \in K |-> OverrideValue(k, choice)] :
                K \in SubsetsUpTo(OverrideKeys, MaxOverrides), choice \in {1, 2}}

Envs == [bitsandbytes : BOOLEAN, autogptq : BOOLEAN, optimum_gptq : BOOLEAN,
         autoawq : BOOLEAN, cuda : BOOLEAN]

model_id == "databricks/dolly-v2-3b"

----------------------------------------------------------------------------
(* State machine of the quantisation selector *)

QIdle ==
  /\ env = [bitsandbytes |-> TRUE, autogptq |-> TRUE, optimum_gptq |-> TRUE,
            autoawq |-> TRUE, cuda |-> FALSE]
  /\ quantise = "int8"
  /\ kwargs = <<>>
  /\ result = Idle
  /\ prev = Idle
  /\ calls = 0

TIdle == key = "" /\ token_ids = <<>> /\ tok_result = Idle

SIdle == san_in = Idle /\ san_result = Idle

InitQ ==
  /\ env \in Envs
  /\ quantise \in Modes
  /\ kwargs \in Overrides
  /\ result = Idle
  /\ prev = Idle
  /\ calls = 0
  /\ TIdle
  /\ SIdle

\* one call llm.infer_quantisation_config(quantise, **kwargs)
CallInfer ==
  /\ calls < MaxCalls
  /\ LET out == infer_quantisation_config(model_id, env, quantise, kwargs)
     IN  /\ result' = out
         /\ kwargs' = caller_kwargs_after_call(kwargs, out)
  /\ prev' = result
  /\ calls' = calls + 1
  /\ UNCHANGED <<env, quantise, tvars, svars>>

NextQ == CallInfer

SpecQ == InitQ /\ [][NextQ]_vars

----------------------------------------------------------------------------
(* openllm_core/config/configuration_dolly_v2.py *)

INSTRUCTION_KEY == "### Instruction:"
RESPONSE_KEY == "### Response:"
END_KEY == "### End"
INTRO_BLURB == "Below is an instruction that describes a task. Write a response that appropriately completes the request."

\* a text is the sequence of its lines; the template ends with a newline
DEFAULT_PROMPT_TEMPLATE(instruction) == <<INTRO_BLURB, INSTRUCTION_KEY, instruction, RESPONSE_KEY, "">>

process_prompt(prompt, use_prompt_template, attrs) ==
  IF use_prompt_template THEN DEFAULT_PROMPT_TEMPLATE(prompt) ELSE <<prompt>>

get_special_token_id_allows_two(ids, k) ==
  IF Len(ids) > 2
    THEN [status |-> "error", kind |-> "ValueError", key |-> k, token_ids |-> ids]
  ELSE IF Len(ids) = 0
    THEN [status |-> "error", kind |-> "IndexError"]
  ELSE [status |-> "ok", value |-> ids[1]]

\* ids is tokenizer.encode(k); token_ids[0] on an empty list raises IndexError
get_special_token_id(ids, k) ==
  IF Len(ids) > 1
    THEN [status |-> "error", kind |-> "ValueError", key |-> k, token_ids |-> ids]
  ELSE IF Len(ids) = 0
    THEN [status |-> "error", kind |-> "IndexError"]
  ELSE [status |-> "ok", value |-> ids[1]]

sanitize_parameters_drops_attrs(in) ==
  [status |-> "ok",
   prompt |-> process_prompt(in.prompt, in.use_default_prompt_template, in.attrs),
   generate_kwargs |-> [max_new_tokens |-> in.max_new_tokens, top_k |-> in.top_k,
                        top_p |-> in.top_p, temperature |-> in.temperature],
   load_kwargs |-> <<>>]

sanitize_parameters(in) ==
  [status |-> "ok",
   prompt |-> process_prompt(in.prompt, in.use_default_prompt_template, in.attrs),
   generate_kwargs |-> merge([max_new_tokens |-> in.max_new_tokens, top_k |-> in.top_k,
                              top_p |-> in.top_p, temperature |-> in.temperature],
                             in.attrs),
   load_kwargs |-> <<>>]

----------------------------------------------------------------------------
(* Inputs and state machine of get_special_token_id *)

Markers == {INSTRUCTION_KEY, RESPONSE_KEY, END_KEY}

\* ids a tokenizer may give; 50277 is the id of END_KEY in GenerationConfig
TokenIds == {50277, 50278, 2}

RECURSIVE SeqsUpTo(_, _)
SeqsUpTo(S, n) ==
  IF n = 0 THEN {<<>>}
  ELSE LET shorter == SeqsUpTo(S, n - 1)
       IN  shorter \cup {Append(s, x) : s \in shorter, x \in S}

InitT ==
  /\ QIdle
  /\ SIdle
  /\ key \in Markers
  /\ token_ids \in SeqsUpTo(TokenIds, MaxIds)
  /\ tok_result = Idle

CallGetSpecialTokenId ==
  /\ tok_result = Idle
  /\ tok_result' = get_special_token_id(token_ids, key)
  /\ UNCHANGED <<key, token_ids, qvars, svars>>

NextT == CallGetSpecialTokenId

SpecT == InitT /\ [][NextT]_vars

----------------------------------------------------------------------------
(* Inputs and state machine of DollyV2Config.sanitize_parameters *)

NamedParameters == {"max_new_tokens", "top_k", "top_p", "temperature"}

ExtraKeys == {"do_sample", "num_beams", "repetition_penalty", "eos_token_id"}

ExtraValue(k) ==
  CASE k = "do_sample" -> "True"
    [] k = "num_beams" -> "4"
    [] k = "repetition_penalty" -> "1.2"
    [] OTHER -> "50277"

Extras == {[k \in K |-> ExtraValue(k)] : K \in SubsetsUpTo(ExtraKeys, MaxExtras)}

SanInputs ==
  [prompt : {"What is a llama?", ""},
   max_new_tokens : {None, "128"},
   temperature : {None, "0.7"},
   top_k : {None, "10"},
   top_p : {None, "0.5"},
   use_default_prompt_template : BOOLEAN,
   attrs : Extras]

InitS ==
  /\ QIdle
  /\ TIdle
  /\ san_in \in {[status |-> "given", args |-> a] : a \in SanInputs}
  /\ san_result = Idle

CallSanitizeParameters ==
  /\ san_in.status = "given"
  /\ san_result = Idle
  /\ san_result' = sanitize_parameters(san_in.args)
  /\ UNCHANGED <<san_in, qvars, tvars>>

NextS == CallSanitizeParameters

SpecS == InitS /\ [][NextS]_vars

----------------------------------------------------------------------------
(* Properties of infer_quantisation_config, checked under SpecQ *)

Called == calls > 0
Succeeded == Called /\ result.status = "ok"
Failed == Called /\ result.status = "error"

AcceptedModes == {Accepted[i] : i \in DOMAIN Accepted}

\* keys popped before the mode is looked at
AlwaysConsumed == Int8Keys \cup SharedKeys \cup Int4Keys

\* keys popped inside the branch of a mode
BranchConsumed(q) == IF q = "gptq" THEN GptqKeys ELSE IF q = "awq" THEN AwqKeys ELSE {}

\* the parameter set of a mode
OwnKeys(q) ==
  CASE q = "int8" -> Int8Keys
    [] q = "int4" -> Int4Keys
    [] q = "gptq" -> SharedKeys \cup GptqKeys
    [] q = "awq"  -> SharedKeys \cup AwqKeys
    [] OTHER -> {}

\* the keys of kw outside K, with their values
Without(kw, K) == [k \in {x \in DOMAIN kw : x \notin K} |-> kw[k]]

\* C1 as stated: on success the leftover mapping is the overrides minus the keys
\* of the chosen mode's own parameter set, so an override of another mode survives.
C1_LeftoverIsOverridesMinusOwnKeys ==
  Succeeded => result.attrs = Without(kwargs, OwnKeys(quantise))

\* C1 amended: on success the leftover mapping is the overrides minus the int8,
\* int4 and bits/group_size keys (consumed for every mode) and minus the keys the
\* chosen branch pops (the thirteen gptq keys, or zero_point for awq); every other
\* override is present with its value unchanged.
C1_LeftoverIsOverridesMinusConsumed ==
  Succeeded => result.attrs = Without(kwargs, AlwaysConsumed \cup BranchConsumed(quantise))

C1_Witness ==
  /\ Succeeded
  /\ quantise = "gptq"
  /\ DOMAIN kwargs = {"llm_int8_threshhold", "zero_point"}
  /\ DOMAIN result.attrs = {"zero_point"}
  /\ result.attrs["zero_point"] = kwargs["zero_point"]

\* C2: a mode outside int8/int4/gptq/awq fails with a ValueError that enumerates
\* ['int8', 'int4', 'gptq', 'awq'], whatever the availability flags and overrides.
C2_UnknownModeIsValueError ==
  (Called /\ quantise \notin AcceptedModes) =>
     /\ result.status = "error"
     /\ result.kind = "ValueError"
     /\ result.accepted = <<"int8", "int4", "gptq", "awq">>

VariantClass(q) ==
  CASE q = "int8" -> "BitsAndBytesConfig"
    [] q = "int4" -> "BitsAndBytesConfig"
    [] q = "gptq" -> "GPTQConfig"
    [] q = "awq"  -> "AwqConfig"
    [] OTHER -> "none"

VariantFields(q) ==
  CASE q = "int8" -> {"load_in_8bit"} \cup Int8Keys
    [] q = "int4" -> {"load_in_4bit"} \cup Int4Keys
    [] q = "gptq" -> SharedKeys \cup GptqKeys
    [] q = "awq"  -> SharedKeys \cup AwqKeys
    [] OTHER -> {}

\* C3: on success the configuration built is the variant of the mode tag, whatever
\* the overrides: its class and its field set are those of the mode (int8 has
\* load_in_8bit set and no 4-bit field, int4 has load_in_4bit set and no int8
\* field), and it has no field that only another variant has.
C3_VariantSelectedByModeAlone ==
  Succeeded =>
     /\ quantise \in AcceptedModes
     /\ result.config.class = VariantClass(quantise)
     /\ DOMAIN result.config.args = VariantFields(quantise)
     /\ quantise = "int8" => result.config.args.load_in_8bit = "True"
     /\ quantise = "int4" => result.config.args.load_in_4bit = "True"
     /\ \A other \in AcceptedModes \ {quantise} :
          (VariantFields(other) \ VariantFields(quantise)) \cap DOMAIN result.config.args = {}

C3_Witness ==
  /\ Succeeded
  /\ quantise = "int4"
  /\ DOMAIN kwargs = {"load_in_8bit", "llm_int8_threshhold"}
  /\ "load_in_4bit" \in DOMAIN result.config.args
  /\ "load_in_8bit" \notin DOMAIN result.config.args

\* C4: with bitsandbytes unavailable every call fails with the error that reports
\* the missing bitsandbytes dependency and its install hint, whatever the mode, the
\* other availability flags and the overrides; no configuration is returned.
C4_NoBitsAndBytesAlwaysFails ==
  (Called /\ ~env.bitsandbytes) =>
     /\ result.status = "error"
     /\ result.requires = {"bitsandbytes"}
     /\ result.hint # ""
     /\ "config" \notin DOMAIN result

C4_Witness ==
  /\ Called
  /\ ~env.bitsandbytes
  /\ quantise = "gptq"
  /\ env.autogptq /\ env.optimum_gptq
  /\ result.status = "error"

\* C5: mode gptq with auto-gptq or optimum's GPTQ support unavailable raises a
\* dependency error naming both auto-gptq and optimum and returns no configuration;
\* a GPTQ configuration is returned only when both are available.
C5_GptqNeedsBothBackends ==
  (Called /\ quantise = "gptq") =>
     /\ (~env.autogptq \/ ~env.optimum_gptq) =>
          /\ result.status = "error"
          /\ result.kind = "MissingDependencyError"
          /\ {"auto-gptq", "optimum>=0.12"} \subseteq result.requires
     /\ result.status = "ok" => (env.autogptq /\ env.optimum_gptq)

\* C6: every failure caused by an absent backend is a MissingDependencyError with
\* an install hint, and the only other error kind raised is the ValueError for an
\* unaccepted mode.
C6_DependencyFailuresAreMissingDependencyError ==
  Failed =>
     /\ result.kind \in {"MissingDependencyError", "ValueError"}
     /\ result.requires # {} => (result.kind = "MissingDependencyError" /\ result.hint # "")
     /\ result.kind = "ValueError" => quantise \notin AcceptedModes

\* the value the caller gave for a key, or the default when none was given
Given(k, default) == IF k \in DOMAIN kwargs THEN kwargs[k] ELSE default

\* C9: mode int8 with the backends available returns a configuration with
\* load_in_8bit true whose threshold, fp32-cpu-offload, skip-modules and
\* has-fp16-weight are the caller's overrides, or 6.0, false, unset and false.
C9_Int8HonoursOverrides ==
  (Called /\ quantise = "int8" /\ env.bitsandbytes) =>
     /\ result.status = "ok"
     /\ result.config.args.load_in_8bit = "True"
     /\ result.config.args.llm_int8_threshhold = Given("llm_int8_threshhold", "6.0")
     /\ result.config.args.llm_int8_enable_fp32_cpu_offload =
          Given("llm_int8_enable_fp32_cpu_offload", "False")
     /\ result.config.args.llm_int8_skip_modules = Given("llm_int8_skip_modules", "None")
     /\ result.config.args.llm_int8_has_fp16_weight = Given("llm_int8_has_fp16_weight", "False")

C9_Witness ==
  /\ Succeeded
  /\ quantise = "int8"
  /\ "llm_int8_threshhold" \in DOMAIN kwargs
  /\ kwargs["llm_int8_threshhold"] = "5.0"
  /\ result.config.args.llm_int8_threshhold = "5.0"
  /\ result.config.args.llm_int8_has_fp16_weight = "False"

----------------------------------------------------------------------------
(* Properties of get_special_token_id, checked under SpecT *)

TokDone == tok_result # Idle

----------------------------------------------------------------------------
(* Properties of sanitize_parameters, checked under SpecS *)

SanDone == san_result # Idle

\* C8: every unrecognised keyword override is in the generation-parameter mapping
\* with its value unchanged, that mapping has no key besides the extras and
\* max_new_tokens, top_k, top_p, temperature, and the load-time mapping is empty.
C8_ExtrasKeptUnchanged ==
  SanDone =>
     /\ \A k \in DOMAIN san_in.args.attrs :
          /\ k \in DOMAIN san_result.generate_kwargs
          /\ san_result.generate_kwargs[k] = san_in.args.attrs[k]
     /\ DOMAIN san_result.generate_kwargs = NamedParameters \cup DOMAIN san_in.args.attrs
     /\ DOMAIN san_result.load_kwargs = {}

C8_Witness ==
  /\ SanDone
  /\ DOMAIN san_in.args.attrs = {"do_sample", "num_beams"}
  /\ san_in.args.max_new_tokens = "128"
  /\ san_result.generate_kwargs["num_beams"] = "4"

====
